---- MODULE Spec2Model ----
(***************************************************************************)
(* Model of the drawing core of foxbobby/NHWC:                             *)
(*   - the stroke history reducer (advancedCanvasReducer / canvasReducer), *)
(*   - the AdvancedCanvasRenderer: two command queues, the frame-rate      *)
(*     gated render loop, the layer compositor.                            *)
(*                                                                         *)
(* SpecHistory drives the reducer with dispatched actions; SpecRender      *)
(* drives one renderer instance through its public methods and the host's  *)
(* animation-frame callback; SpecLayer paints onto named layers, existing  *)
(* or not; SpecHook drives the pointer gesture handlers of the hook         *)
(* useAdvancedCanvas; SpecClassify applies the device classification.      *)
(***************************************************************************)
EXTENDS Integers, Sequences, FiniteSets, TLC

VARIABLES
    state,      \* the reducer state held by useReducer
    lastOps,    \* the (at most two) most recent dispatched history actions
    preStates,  \* strokes and undoStack before each action of lastOps
    sealed,     \* every stroke dispatched with DRAW so far, in order
    run,        \* how the dispatches so far match DRAW^n UNDO^m
    clears,     \* number of CLEAR dispatches so far
    renderer,   \* the fields of the AdvancedCanvasRenderer instance
    clock,      \* timestamp the host passed to the latest frame callback
    nextSeq,    \* number of the next enqueueing call; the k-th operation that
                \* call c enqueues has the submission number <<c, k>>
    call,       \* the name of the latest call on the renderer
    destroyedAt,\* nextSeq at the latest destroy(), 0 before any destroy()
    frames,     \* number of frame callbacks the host has made
    hook,       \* the refs of useAdvancedCanvas: isDrawingRef, lastPointRef,
                \* currentStrokeRef (a ref is a list: empty for null)
    hookLog,    \* what the gesture handlers were called with so far
    device,     \* what the browser reports about the device
    level       \* the latest result of getDevicePerformanceLevel()

histVars == <<state, lastOps, preStates, sealed, run, clears>>

renderVars == <<renderer, clock, nextSeq, call, destroyedAt, frames>>

hookVars == <<hook, hookLog>>

deviceVars == <<device, level>>

vars == <<state, lastOps, preStates, sealed, run, clears,
          renderer, clock, nextSeq, call, destroyedAt, frames,
          hook, hookLog, device, level>>

(***************************************************************************)
(* Bounds of the model.                                                    *)
(***************************************************************************)
MaxStrokes == 2     \* DRAW dispatches per behaviour
MaxClears == 1      \* CLEAR dispatches per behaviour
MaxOps == 3         \* enqueueing calls on the renderer per behaviour
MaxFrames == 2      \* frame callbacks per behaviour

(***************************************************************************)
(* Program constants.                                                      *)
(***************************************************************************)
DEFAULT_SIZE == 4
DEFAULT_OPACITY == 1
DEFAULT_COLOR == "#1E293B"
RED == "#EF4444"

Undefined == "undefined"

Pt(x, y) == [x |-> x, y |-> y]

\* Point lists a sealed stroke may carry: a single tap and a three point line.
PointLists == { <<Pt(0, 0)>>, <<Pt(0, 0), Pt(4, 0), Pt(4, 4)>> }

\* Payloads of SET_BRUSH (Partial<BrushSettings>).
BrushPayloads == { [size |-> 8, color |-> RED] }

\* xs without its last element: Array.prototype.slice(0, -1).
SliceInit(xs) == IF Len(xs) = 0 THEN xs ELSE SubSeq(xs, 1, Len(xs) - 1)

\* The last element of a non-empty array: xs[xs.length - 1].
Last(xs) == xs[Len(xs)]

\* { ...base, ...patch }
Spread(base, patch) ==
    [f \in DOMAIN base \cup DOMAIN patch |->
        IF f \in DOMAIN patch THEN patch[f] ELSE base[f]]

initialState ==
    [ strokes       |-> <<>>,
      undoStack     |-> <<>>,
      redoStack     |-> <<>>,
      isDrawing     |-> FALSE,
      currentStroke |-> Undefined,
      brushSettings |-> [ size    |-> DEFAULT_SIZE,
                          color   |-> DEFAULT_COLOR,
                          opacity |-> DEFAULT_OPACITY,
                          type    |-> "pen" ] ]

(***************************************************************************)
(* The reducer, one operator per case of the switch.                       *)
(***************************************************************************)
ReduceDraw(s, payload) ==
    [s EXCEPT !.strokes = Append(s.strokes, payload),
              !.redoStack = <<>>]

\* UNDO as the bug "an undo on an empty list takes back the last batch".
ReduceUndo_RestoresBatch(s) ==
    IF Len(s.strokes) = 0
    THEN IF Len(s.undoStack) = 0 THEN s
         ELSE [s EXCEPT !.strokes = Last(s.undoStack),
                        !.undoStack = SliceInit(s.undoStack)]
    ELSE [s EXCEPT !.strokes = SliceInit(s.strokes),
                   !.undoStack = Append(s.undoStack, <<Last(s.strokes)>>)]

\* UNDO as the bug "the batch pushed is the whole list, not the last stroke".
ReduceUndo_WholeList(s) ==
    IF Len(s.strokes) = 0 THEN s
    ELSE [s EXCEPT !.strokes = SliceInit(s.strokes),
                   !.undoStack = Append(s.undoStack, s.strokes)]

ReduceUndo(s) ==
    IF Len(s.strokes) = 0 THEN s
    ELSE LET lastStroke == Last(s.strokes)
         IN  [s EXCEPT !.strokes = SliceInit(s.strokes),
                       !.undoStack = Append(s.undoStack, <<lastStroke>>)]

\* REDO as the bug "the batch is put in front of the list".
ReduceRedo_Prepend(s) ==
    IF Len(s.undoStack) = 0 THEN s
    ELSE [s EXCEPT !.strokes = Last(s.undoStack) \o s.strokes,
                   !.undoStack = SliceInit(s.undoStack)]

\* REDO as the bug "the batch stays on the stack".
ReduceRedo_KeepsBatch(s) ==
    IF Len(s.undoStack) = 0 THEN s
    ELSE [s EXCEPT !.strokes = s.strokes \o Last(s.undoStack)]

ReduceRedo(s) ==
    IF Len(s.undoStack) = 0 THEN s
    ELSE LET strokesToRedo == Last(s.undoStack)
         IN  [s EXCEPT !.strokes = s.strokes \o strokesToRedo,
                       !.undoStack = SliceInit(s.undoStack)]

\* CLEAR as the bug "one batch per stroke, as UNDO pushes them".
ReduceClear_PerStroke(s) ==
    [s EXCEPT !.strokes = <<>>,
              !.undoStack = s.undoStack \o [i \in 1..Len(s.strokes) |-> <<s.strokes[i]>>],
              !.redoStack = <<>>]

\* CLEAR as the variant "an empty list is not pushed".
ReduceClear_Guarded(s) ==
    IF Len(s.strokes) = 0 THEN s
    ELSE [s EXCEPT !.strokes = <<>>,
                   !.undoStack = Append(s.undoStack, s.strokes),
                   !.redoStack = <<>>]

ReduceClear(s) ==
    [s EXCEPT !.strokes = <<>>,
              !.undoStack = Append(s.undoStack, s.strokes),
              !.redoStack = <<>>]

\* SET_BRUSH as the bug "the new brush is applied to the strokes drawn so far".
ReduceSetBrush_Restyles(s, payload) ==
    LET brush == Spread(s.brushSettings, payload)
    IN  [s EXCEPT !.brushSettings = brush,
                  !.strokes = [i \in 1..Len(@) |->
                                 [@[i] EXCEPT !.color = brush.color, !.width = brush.size]]]

ReduceSetBrush(s, payload) ==
    [s EXCEPT !.brushSettings = Spread(s.brushSettings, payload)]

advancedCanvasReducer(s, action) ==
    CASE action.type = "DRAW"      -> ReduceDraw(s, action.payload)
      [] action.type = "UNDO"      -> ReduceUndo(s)
      [] action.type = "REDO"      -> ReduceRedo(s)
      [] action.type = "CLEAR"     -> ReduceClear(s)
      [] action.type = "SET_BRUSH" -> ReduceSetBrush(s, action.payload)
      [] OTHER                     -> s

\* generateId(): a fresh id for every stroke.
generateId == Len(sealed) + 1

\* The stroke endDrawing dispatches: built by startDrawing from the brush.
NewStroke(points) ==
    [ id     |-> generateId,
      points |-> points,
      color  |-> state.brushSettings.color,
      width  |-> state.brushSettings.size ]

(***************************************************************************)
(* Bookkeeping of the dispatch history (not program state).                *)
(***************************************************************************)
History(s) == [strokes |-> s.strokes, undoStack |-> s.undoStack]

Keep2(xs) == IF Len(xs) > 2 THEN SubSeq(xs, Len(xs) - 1, Len(xs)) ELSE xs

RunAfter(type) ==
    CASE type = "DRAW" ->
            [run EXCEPT !.draws = IF run.pure /\ run.undos = 0 THEN @ + 1 ELSE @,
                        !.pure = run.pure /\ run.undos = 0]
      [] type = "UNDO" ->
            [run EXCEPT !.undos = IF run.pure /\ run.undos < run.draws THEN @ + 1 ELSE @,
                        !.pure = run.pure /\ run.undos < run.draws]
      [] type = "SET_BRUSH" -> run
      [] OTHER -> [run EXCEPT !.pure = FALSE]

Dispatch(action) ==
    /\ state' = advancedCanvasReducer(state, action)
    /\ lastOps' = Keep2(Append(lastOps, action.type))
    /\ preStates' = Keep2(Append(preStates, History(state)))
    /\ sealed' = IF action.type = "DRAW" THEN Append(sealed, action.payload) ELSE sealed
    /\ run' = RunAfter(action.type)
    /\ clears' = IF action.type = "CLEAR" THEN clears + 1 ELSE clears
    /\ UNCHANGED <<renderVars, hookVars, deviceVars>>

(***************************************************************************)
(* Actions of the history specification: one per dispatched action type.   *)
(***************************************************************************)
DispatchDraw ==
    /\ Len(sealed) < MaxStrokes
    /\ \E points \in PointLists :
          Dispatch([type |-> "DRAW", payload |-> NewStroke(points)])

DispatchUndo == Dispatch([type |-> "UNDO"])

DispatchRedo == Dispatch([type |-> "REDO"])

DispatchClear ==
    /\ clears < MaxClears
    /\ Dispatch([type |-> "CLEAR"])

DispatchSetBrush ==
    \E payload \in BrushPayloads :
        Dispatch([type |-> "SET_BRUSH", payload |-> payload])

(***************************************************************************)
(* The renderer (AdvancedCanvasRenderer).                                  *)
(*                                                                         *)
(* A canvas is its size and its content, the set of inked paths on it.     *)
(* offscreenCanvas is a set: empty for null, else the one canvas.          *)
(* journal is the list of what the current call executed and drew; it is   *)
(* emptied at the start of every call.  averageFrameTime is the quotient   *)
(* totalRenderTime / framesRendered of the two counters kept here.         *)
(***************************************************************************)
Null == "null"
RafHandle == "requested"

\* What optimizeCanvas reads from the host.
RectWidth == 4
RectHeight == 4
DevicePixelRatio == 2

DEFAULT_FRAME_RATE == 60
DIRTY_REGION_LIMIT == 100
DIRTY_REGION_KEEP == 50

\* Options the hook passes for the high and the low tier, and no options.
HIGH_OPTIONS == [enableOffscreenRendering |-> TRUE, frameRate |-> 60]
LOW_OPTIONS == [enableOffscreenRendering |-> FALSE, frameRate |-> 15]
NO_OPTIONS == [o \in {} |-> TRUE]
OptionSets == {HIGH_OPTIONS, LOW_OPTIONS, NO_OPTIONS}

\* Inputs of the model: gaps between frame callbacks, measured processing
\* times of a frame (ms), layer names, strokes, stroke lists, sizes.
FrameGaps == {10, 70}
FrameTimes == {30}
LayerArgs == {"drawing", "ui", "shadow"}
TapStroke == [id |-> 1, points |-> <<Pt(0, 0)>>, color |-> DEFAULT_COLOR, width |-> 4]
LineStroke == [id |-> 2, points |-> <<Pt(0, 0), Pt(4, 0), Pt(4, 4)>>, color |-> RED, width |-> 8]
StrokeArgs == {TapStroke, LineStroke}
BatchArgs == { <<TapStroke, LineStroke>> }
SizeArgs == { [width |-> 8, height |-> 6] }

EmptyMap == [k \in {} |-> TRUE]

Canvas(w, h) == [width |-> w, height |-> h, content |-> {}]

\* Map iteration order of this.layers: the order initLayers created them in.
LayerInsertionOrder == <<"background", "drawing", "ui">>

createLayer(name, zIndex, mainCanvas) ==
    [ width   |-> mainCanvas.width,
      height  |-> mainCanvas.height,
      content |-> {},
      isDirty |-> FALSE,
      zIndex  |-> zIndex ]

initLayers(mainCanvas) ==
    [name \in {"background", "drawing", "ui"} |->
        createLayer(name,
                    CASE name = "background" -> 0
                      [] name = "drawing" -> 1
                      [] name = "ui" -> 2,
                    mainCanvas)]

\* Assigning a canvas its width and height blanks it.
optimizeCanvas(r) ==
    LET w == RectWidth * DevicePixelRatio
        h == RectHeight * DevicePixelRatio
    IN  [r EXCEPT
            !.mainCanvas = Canvas(w, h),
            !.offscreenCanvas = {Canvas(w, h) : c \in @},
            !.layers = [n \in DOMAIN @ |->
                          [@[n] EXCEPT !.width = w, !.height = h, !.content = {}]]]

\* new AdvancedCanvasRenderer(canvas, options); offscreenCtxOk tells whether
\* the offscreen canvas yields a 2D context.
NewRenderer(canvas, options, offscreenCtxOk) ==
    optimizeCanvas(
        [ mainCanvas        |-> canvas,
          offscreenCanvas   |->
              IF /\ ("enableOffscreenRendering" \in DOMAIN options
                        => options.enableOffscreenRendering # FALSE)
                 /\ offscreenCtxOk
              THEN {Canvas(canvas.width, canvas.height)}
              ELSE {},
          layers            |-> initLayers(canvas),
          renderQueue       |-> <<>>,
          batchedOperations |-> <<>>,
          rafId             |-> RafHandle,
          lastFrameTime     |-> 0,
          targetFrameRate   |->
              IF "frameRate" \in DOMAIN options /\ options.frameRate # 0
              THEN options.frameRate
              ELSE DEFAULT_FRAME_RATE,
          renderStats       |-> [framesRendered |-> 0, droppedFrames |-> 0,
                                 totalRenderTime |-> 0],
          strokeCache       |-> EmptyMap,
          dirtyRegions      |-> <<>>,
          isRendering       |-> FALSE,
          journal           |-> <<>> ])

\* The cache key as the bug "the point count is left out".
getStrokeCacheKey_NoCount(stroke) ==
    <<stroke.id, stroke.color, stroke.width>>

getStrokeCacheKey(stroke) ==
    <<stroke.id, Len(stroke.points), stroke.color, stroke.width>>

\* The midpoint of two points; the points of the model have even coordinates.
Mid(a, b) == Pt((a.x + b.x) \div 2, (a.y + b.y) \div 2)

createStrokePath(stroke) ==
    LET points == stroke.points
        n == Len(points)
    IN  IF n < 2 THEN <<>>
        ELSE <<[cmd |-> "moveTo", to |-> points[1]]>>
             \o [i \in 1..(n - 2) |->
                   [cmd |-> "quadraticCurveTo",
                    control |-> points[i + 1],
                    to |-> Mid(points[i + 1], points[i + 2])]]
             \o <<[cmd |-> "lineTo", to |-> points[n]]>>

MinOf(S) == CHOOSE m \in S : \A x \in S : m <= x
MaxOf(S) == CHOOSE m \in S : \A x \in S : m >= x

\* The widths of the model are even, so width / 2 is exact.
getStrokeBounds(stroke) ==
    IF Len(stroke.points) = 0
    THEN [x |-> 0, y |-> 0, width |-> 0, height |-> 0]
    ELSE LET xs == {stroke.points[i].x : i \in 1..Len(stroke.points)}
             ys == {stroke.points[i].y : i \in 1..Len(stroke.points)}
             padding == stroke.width \div 2
         IN  [ x      |-> MinOf(xs) - padding,
               y      |-> MinOf(ys) - padding,
               width  |-> MaxOf(xs) - MinOf(xs) + padding * 2,
               height |-> MaxOf(ys) - MinOf(ys) + padding * 2 ]

\* addDirtyRegion as the bug "past the capacity the oldest regions are kept".
addDirtyRegion_KeepsOldest(dirtyRegions, rect) ==
    LET pushed == Append(dirtyRegions, rect)
    IN  IF Len(pushed) > DIRTY_REGION_LIMIT
        THEN SubSeq(pushed, 1, DIRTY_REGION_KEEP)
        ELSE pushed

addDirtyRegion(dirtyRegions, rect) ==
    LET pushed == Append(dirtyRegions, rect)
    IN  IF Len(pushed) > DIRTY_REGION_LIMIT
        THEN SubSeq(pushed, Len(pushed) - DIRTY_REGION_KEEP + 1, Len(pushed))
        ELSE pushed

\* ctx.stroke(path) in the stroke's style: an empty path leaves no ink.
Ink(path, stroke) ==
    IF Len(path) = 0 THEN {}
    ELSE {[path |-> path, color |-> stroke.color, width |-> stroke.width]}

(***************************************************************************)
(* The queued operations: what each closure does when it is called.        *)
(***************************************************************************)
\* The closure of drawStroke as the variant "an empty path is not painted".
ExecDrawStroke_SkipsEmptyPath(r, op) ==
    IF op.layerName \notin DOMAIN r.layers THEN r
    ELSE LET stroke == op.stroke
             cacheKey == getStrokeCacheKey(stroke)
             hit == cacheKey \in DOMAIN r.strokeCache
             path == IF hit THEN r.strokeCache[cacheKey] ELSE createStrokePath(stroke)
             cached == [r EXCEPT !.strokeCache = IF hit THEN @ ELSE (cacheKey :> path) @@ @]
         IN  IF Len(path) = 0 THEN cached
             ELSE [cached EXCEPT
                     !.layers[op.layerName].content = @ \cup Ink(path, stroke),
                     !.layers[op.layerName].isDirty = TRUE,
                     !.dirtyRegions = addDirtyRegion(@, getStrokeBounds(stroke))]

ExecDrawStroke(r, op) ==
    IF op.layerName \notin DOMAIN r.layers THEN r
    ELSE LET stroke == op.stroke
             cacheKey == getStrokeCacheKey(stroke)
             hit == cacheKey \in DOMAIN r.strokeCache
             path == IF hit THEN r.strokeCache[cacheKey] ELSE createStrokePath(stroke)
         IN  [r EXCEPT
                !.strokeCache = IF hit THEN @ ELSE (cacheKey :> path) @@ @,
                !.layers[op.layerName].content = @ \cup Ink(path, stroke),
                !.layers[op.layerName].isDirty = TRUE,
                !.dirtyRegions = addDirtyRegion(@, getStrokeBounds(stroke))]

\* The closure of drawStrokes as the bug "an unknown name means the drawing
\* layer".
ExecDrawStrokes_FallsBack(r, op) ==
    LET name == IF op.layerName \in DOMAIN r.layers THEN op.layerName ELSE "drawing"
    IN  IF name \notin DOMAIN r.layers THEN r
        ELSE LET drawn == {i \in 1..Len(op.strokes) : Len(op.strokes[i].points) >= 2}
             IN  [r EXCEPT
                    !.layers[name].content =
                        @ \cup UNION {Ink(createStrokePath(op.strokes[i]), op.strokes[i]) : i \in drawn},
                    !.layers[name].isDirty = TRUE]

ExecDrawStrokes(r, op) ==
    IF op.layerName \notin DOMAIN r.layers THEN r
    ELSE LET drawn == {i \in 1..Len(op.strokes) : Len(op.strokes[i].points) >= 2}
         IN  [r EXCEPT
                !.layers[op.layerName].content =
                    @ \cup UNION {Ink(createStrokePath(op.strokes[i]), op.strokes[i]) : i \in drawn},
                !.layers[op.layerName].isDirty = TRUE]

ExecClearLayer(r, op) ==
    IF op.layerName \notin DOMAIN r.layers THEN r
    ELSE [r EXCEPT !.layers[op.layerName].content = {},
                   !.layers[op.layerName].isDirty = TRUE]

\* The closure of resize as the bug "the surfaces keep their pixels".
ExecResize_KeepsPixels(r, op) ==
    LET w == RectWidth * DevicePixelRatio
        h == RectHeight * DevicePixelRatio
    IN  [r EXCEPT
            !.mainCanvas = [@ EXCEPT !.width = w, !.height = h],
            !.offscreenCanvas = {[c EXCEPT !.width = w, !.height = h] : c \in @},
            !.layers = [n \in DOMAIN @ |->
                          [@[n] EXCEPT !.width = w, !.height = h, !.isDirty = TRUE]]]

ExecResize(r, op) ==
    optimizeCanvas(
        [r EXCEPT
            !.mainCanvas = Canvas(op.width, op.height),
            !.offscreenCanvas = {Canvas(op.width, op.height) : c \in @},
            !.layers = [n \in DOMAIN @ |->
                          [@[n] EXCEPT !.width = op.width, !.height = op.height,
                                       !.content = {}, !.isDirty = TRUE]]])

\* operation(): the closure runs, and the journal notes it.
Operation(r, op) ==
    LET noted == [r EXCEPT !.journal = Append(@, [ev |-> "exec", seq |-> op.seq, kind |-> op.kind])]
    IN  CASE op.kind = "drawStroke"  -> ExecDrawStroke(noted, op)
          [] op.kind = "drawStrokes" -> ExecDrawStrokes(noted, op)
          [] op.kind = "clearLayer"  -> ExecClearLayer(noted, op)
          [] op.kind = "resize"      -> ExecResize(noted, op)

(***************************************************************************)
(* The render loop.                                                        *)
(***************************************************************************)
RECURSIVE ForEach(_, _)
ForEach(r, operations) ==
    IF Len(operations) = 0 THEN r
    ELSE ForEach(Operation(r, Head(operations)), Tail(operations))

\* processBatchedOperations as the bug "only the first operation is called".
processBatchedOperations_FirstOnly(r) ==
    LET operations == r.batchedOperations
    IN  ForEach([r EXCEPT !.batchedOperations = <<>>], SubSeq(operations, 1, 1))

processBatchedOperations(r) ==
    LET operations == r.batchedOperations
    IN  ForEach([r EXCEPT !.batchedOperations = <<>>], operations)

\* while (this.renderQueue.length > 0) { this.renderQueue.shift()() }
RECURSIVE DrainRenderQueue(_)
DrainRenderQueue(r) ==
    IF Len(r.renderQueue) = 0 THEN r
    ELSE LET operation == Head(r.renderQueue)
         IN  DrainRenderQueue(Operation([r EXCEPT !.renderQueue = Tail(@)], operation))

\* Array.from(this.layers.values()).sort((a, b) => a.zIndex - b.zIndex),
\* as the list of the layers' names.
RECURSIVE SortByZIndex(_, _)
SortByZIndex(layers, names) ==
    IF names = {} THEN <<>>
    ELSE LET first == CHOOSE n \in names :
                         \A m \in names : layers[n].zIndex <= layers[m].zIndex
         IN  <<first>> \o SortByZIndex(layers, names \ {first})

RECURSIVE DrawDirtyLayers(_, _)
DrawDirtyLayers(r, sortedLayers) ==
    IF Len(sortedLayers) = 0 THEN r
    ELSE LET name == Head(sortedLayers)
             layer == r.layers[name]
             drawn == IF layer.isDirty
                      THEN [r EXCEPT
                              !.mainCanvas.content = @ \cup layer.content,
                              !.layers[name].isDirty = FALSE,
                              !.journal = Append(@, [ev |-> "drawImage", layer |-> name])]
                      ELSE r
         IN  DrawDirtyLayers(drawn, Tail(sortedLayers))

\* composeLayers as the bug "every layer is drawn, dirty or not".
composeLayers_EveryLayer(r) ==
    LET cleared == [r EXCEPT !.mainCanvas.content = {},
                             !.journal = Append(@, [ev |-> "clearRect"])]
        allDirty == [cleared EXCEPT !.layers =
                        [n \in DOMAIN @ |-> [@[n] EXCEPT !.isDirty = TRUE]]]
        layered == DrawDirtyLayers(allDirty, SortByZIndex(r.layers, DOMAIN r.layers))
    IN  IF layered.offscreenCanvas # {}
        THEN [layered EXCEPT
                !.mainCanvas.content =
                    @ \cup UNION {c.content : c \in layered.offscreenCanvas},
                !.journal = Append(@, [ev |-> "drawOffscreen"])]
        ELSE layered

composeLayers(r) ==
    LET cleared == [r EXCEPT !.mainCanvas.content = {},
                             !.journal = Append(@, [ev |-> "clearRect"])]
        layered == DrawDirtyLayers(cleared, SortByZIndex(r.layers, DOMAIN r.layers))
    IN  IF layered.offscreenCanvas # {}
        THEN [layered EXCEPT
                !.mainCanvas.content =
                    @ \cup UNION {c.content : c \in layered.offscreenCanvas},
                !.journal = Append(@, [ev |-> "drawOffscreen"])]
        ELSE layered

\* updateRenderStats as the bug "a frame longer than the interval is dropped".
updateRenderStats_AtInterval(r, frameTime) ==
    [r EXCEPT
        !.renderStats.framesRendered = @ + 1,
        !.renderStats.totalRenderTime = @ + frameTime,
        !.renderStats.droppedFrames =
            IF frameTime * r.targetFrameRate > 1000 THEN @ + 1 ELSE @]

\* updateRenderStats as the bug "only the time is added up".
updateRenderStats_TimeOnly(r, frameTime) ==
    [r EXCEPT !.renderStats.totalRenderTime = @ + frameTime]

\* frameTime > (1000 / targetFrameRate) * 1.5, without the division.
updateRenderStats(r, frameTime) ==
    [r EXCEPT
        !.renderStats.framesRendered = @ + 1,
        !.renderStats.totalRenderTime = @ + frameTime,
        !.renderStats.droppedFrames =
            IF 2 * frameTime * r.targetFrameRate > 3 * 1000 THEN @ + 1 ELSE @]

\* processRenderQueue as the bug "the render queue is drained first".
processRenderQueue_ImmediateFirst(r, frameTime) ==
    IF Len(r.renderQueue) = 0 /\ Len(r.batchedOperations) = 0 THEN r
    ELSE LET started == [r EXCEPT !.isRendering = TRUE]
             drained == DrainRenderQueue(started)
             batched == IF Len(drained.batchedOperations) > 0
                        THEN processBatchedOperations(drained)
                        ELSE drained
             composed == composeLayers(batched)
             counted == updateRenderStats(composed, frameTime)
         IN  [counted EXCEPT !.isRendering = FALSE]

\* frameTime is what performance.now() measures around the processing.
processRenderQueue(r, frameTime) ==
    IF Len(r.renderQueue) = 0 /\ Len(r.batchedOperations) = 0 THEN r
    ELSE LET started == [r EXCEPT !.isRendering = TRUE]
             batched == IF Len(started.batchedOperations) > 0
                        THEN processBatchedOperations(started)
                        ELSE started
             drained == DrainRenderQueue(batched)
             composed == composeLayers(drained)
             counted == updateRenderStats(composed, frameTime)
         IN  [counted EXCEPT !.isRendering = FALSE]

\* renderFrame as the bug "every callback processes the queues".
renderFrame_Ungated(r, currentTime, frameTime) ==
    [processRenderQueue(r, frameTime) EXCEPT !.lastFrameTime = currentTime,
                                             !.rafId = RafHandle]

\* renderFrame(currentTime): deltaTime >= 1000 / targetFrameRate, without the
\* division; the callback registers itself again.
renderFrame(r, currentTime, frameTime) ==
    LET deltaTime == currentTime - r.lastFrameTime
        framed == IF deltaTime * r.targetFrameRate >= 1000
                  THEN [processRenderQueue(r, frameTime) EXCEPT !.lastFrameTime = currentTime]
                  ELSE r
    IN  [framed EXCEPT !.rafId = RafHandle]

(***************************************************************************)
(* The public methods.                                                     *)
(***************************************************************************)
drawStroke(r, stroke, layerName, seq) ==
    [r EXCEPT !.batchedOperations =
        Append(@, [kind |-> "drawStroke", seq |-> seq,
                   layerName |-> layerName, stroke |-> stroke])]

drawStrokes(r, strokes, layerName, seq) ==
    [r EXCEPT !.batchedOperations =
        Append(@, [kind |-> "drawStrokes", seq |-> seq,
                   layerName |-> layerName, strokes |-> strokes])]

clearLayer(r, layerName, seq) ==
    [r EXCEPT !.renderQueue =
        Append(@, [kind |-> "clearLayer", seq |-> seq, layerName |-> layerName])]

\* this.layers.forEach((layer, name) => this.clearLayer(name)), the
\* operations getting the submission numbers seq, then the ones after it.
RECURSIVE ClearEachLayer(_, _, _)
ClearEachLayer(r, names, seq) ==
    IF Len(names) = 0 THEN r
    ELSE ClearEachLayer(clearLayer(r, Head(names), seq), Tail(names),
                        <<seq[1], seq[2] + 1>>)

LayerNames(r) == SelectSeq(LayerInsertionOrder, LAMBDA n : n \in DOMAIN r.layers)

\* clear() as the variant "the path cache is left alone".
clear_KeepsCache(r, seq) ==
    [ClearEachLayer(r, LayerNames(r), seq) EXCEPT
        !.offscreenCanvas = {[c EXCEPT !.content = {}] : c \in @},
        !.dirtyRegions = <<>>,
        !.journal = (IF r.offscreenCanvas # {}
                     THEN Append(@, [ev |-> "clearOffscreen"]) ELSE @)
                       \o <<[ev |-> "cacheClear", dropped |-> {}]>>]

\* The journal notes the clearRect on the offscreen canvas and the keys that
\* strokeCache.clear() dropped.
clear(r, seq) ==
    [ClearEachLayer(r, LayerNames(r), seq) EXCEPT
        !.offscreenCanvas = {[c EXCEPT !.content = {}] : c \in @},
        !.strokeCache = EmptyMap,
        !.dirtyRegions = <<>>,
        !.journal = (IF r.offscreenCanvas # {}
                     THEN Append(@, [ev |-> "clearOffscreen"]) ELSE @)
                       \o <<[ev |-> "cacheClear", dropped |-> DOMAIN r.strokeCache]>>]

\* resize as the bug "the surfaces are resized in the call".
resize_InTheCall(r, width, height, seq) ==
    ExecResize(r, [kind |-> "resize", seq |-> seq, width |-> width, height |-> height])

resize(r, width, height, seq) ==
    [r EXCEPT !.renderQueue =
        Append(@, [kind |-> "resize", seq |-> seq, width |-> width, height |-> height])]

\* getImageData as the bug "the surface is encoded as it is".
getImageData_NoFlush(r, frameTime) == r

\* The returned data URL is not part of the state.
getImageData(r, frameTime) == processRenderQueue(r, frameTime)

\* destroy as the bug "the render queue is not emptied".
destroy_KeepsRenderQueue(r) ==
    [r EXCEPT !.rafId = Null,
              !.batchedOperations = <<>>,
              !.strokeCache = EmptyMap,
              !.dirtyRegions = <<>>,
              !.layers = EmptyMap,
              !.offscreenCanvas = {}]

destroy(r) ==
    [r EXCEPT !.rafId = Null,
              !.renderQueue = <<>>,
              !.batchedOperations = <<>>,
              !.strokeCache = EmptyMap,
              !.dirtyRegions = <<>>,
              !.layers = EmptyMap,
              !.offscreenCanvas = {}]

(***************************************************************************)
(* Actions of the renderer specification: one per call on the renderer.    *)
(***************************************************************************)
Begin == [renderer EXCEPT !.journal = <<>>]

Called(name, after, submitted) ==
    /\ renderer' = after
    /\ call' = name
    /\ nextSeq' = nextSeq + submitted
    /\ UNCHANGED <<histVars, hookVars, deviceVars>>

CanSubmit == nextSeq <= MaxOps

\* The submission number of the first operation the next call enqueues.
First == <<nextSeq, 1>>

DrawStroke ==
    /\ CanSubmit
    /\ \E stroke \in StrokeArgs, layerName \in {"drawing"} :
          Called("drawStroke", drawStroke(Begin, stroke, layerName, First), 1)
    /\ UNCHANGED <<clock, destroyedAt, frames>>

DrawStrokes ==
    /\ CanSubmit
    /\ \E strokes \in BatchArgs, layerName \in {"drawing"} :
          Called("drawStrokes", drawStrokes(Begin, strokes, layerName, First), 1)
    /\ UNCHANGED <<clock, destroyedAt, frames>>

ClearLayer ==
    /\ CanSubmit
    /\ \E layerName \in LayerArgs :
          Called("clearLayer", clearLayer(Begin, layerName, First), 1)
    /\ UNCHANGED <<clock, destroyedAt, frames>>

Clear ==
    /\ CanSubmit
    /\ Called("clear", clear(Begin, First), 1)
    /\ UNCHANGED <<clock, destroyedAt, frames>>

Resize ==
    /\ CanSubmit
    /\ \E size \in SizeArgs :
          Called("resize", resize(Begin, size.width, size.height, First), 1)
    /\ UNCHANGED <<clock, destroyedAt, frames>>

GetImageData ==
    /\ \E frameTime \in FrameTimes :
          Called("getImageData", getImageData(Begin, frameTime), 0)
    /\ UNCHANGED <<clock, destroyedAt, frames>>

\* The host calls the registered frame callback with a later timestamp.
RenderFrame ==
    /\ renderer.rafId # Null
    /\ \E gap \in FrameGaps, frameTime \in FrameTimes :
          /\ frames < MaxFrames
          /\ Called("renderFrame", renderFrame(Begin, clock + gap, frameTime), 0)
          /\ clock' = clock + gap
    /\ frames' = frames + 1
    /\ UNCHANGED destroyedAt

Destroy ==
    /\ Called("destroy", destroy(Begin), 0)
    /\ destroyedAt' = nextSeq
    /\ UNCHANGED <<clock, frames>>

(***************************************************************************)
(* A long drawing session: strokes one after the other, painted by the     *)
(* frames of a host that keeps calling.  renderFrame reads the time only   *)
(* as currentTime - lastFrameTime, so these actions count the time from    *)
(* the last processed frame: lastFrameTime stays 0 and clock is the time   *)
(* since then.  The callbacks are counted modulo 2.                        *)
(***************************************************************************)
MaxRegions == 104   \* drawStroke calls of a long session
MaxPending == 1     \* strokes of a long session that wait for a frame

\* The k-th stroke of the session.
StrokeNo(k) ==
    [ id     |-> k,
      points |-> <<Pt(2 * k, 0), Pt(2 * k + 2, 0)>>,
      color  |-> DEFAULT_COLOR,
      width  |-> DEFAULT_SIZE ]

DrawNextStroke ==
    /\ nextSeq <= MaxRegions
    /\ Len(renderer.batchedOperations) < MaxPending
    /\ Called("drawStroke", drawStroke(Begin, StrokeNo(nextSeq), "drawing", First), 1)
    /\ UNCHANGED <<clock, destroyedAt, frames>>

HostFrame ==
    /\ renderer.rafId # Null
    /\ \E gap \in FrameGaps, frameTime \in FrameTimes :
          LET currentTime == clock + gap
              framed == renderFrame(Begin, currentTime, frameTime)
          IN  /\ Called("renderFrame", [framed EXCEPT !.lastFrameTime = 0], 0)
              /\ clock' = currentTime - framed.lastFrameTime
    /\ frames' = 1 - frames
    /\ UNCHANGED destroyedAt

\* requestAnimationFrame: the host calls the callback that is registered.
CallbackArrives ==
    /\ renderer.rafId # Null
    /\ frames' = 1 - frames

SessionNext ==
    \/ DrawNextStroke
    \/ HostFrame

(***************************************************************************)
(* The frame statistics: frames whose processing takes as long as the      *)
(* drop threshold of a frame rate (25 ms at 60 frames per second, 100 ms   *)
(* at 15), and longer.                                                     *)
(***************************************************************************)
MeasuredTimes == {25, 30, 100, 150}

MeasuredFrame ==
    /\ renderer.rafId # Null
    /\ \E gap \in FrameGaps, frameTime \in MeasuredTimes :
          /\ frames < MaxFrames
          /\ Called("renderFrame", renderFrame(Begin, clock + gap, frameTime), 0)
          /\ clock' = clock + gap
    /\ frames' = frames + 1
    /\ UNCHANGED destroyedAt

StatsNext ==
    \/ DrawStroke
    \/ GetImageData
    \/ MeasuredFrame
    \/ Destroy

(***************************************************************************)
(* The renderer under a host that keeps calling the frame callback, and    *)
(* that is never destroyed.                                                *)
(***************************************************************************)
LiveNext ==
    \/ DrawStroke
    \/ DrawStrokes
    \/ ClearLayer
    \/ Resize
    \/ GetImageData
    \/ HostFrame

\* The state after createAdvancedRenderer(canvas, options).
Constructed(options, offscreenCtxOk) ==
    /\ renderer = NewRenderer(Canvas(RectWidth, RectHeight), options, offscreenCtxOk)
    /\ clock = 0
    /\ nextSeq = 1
    /\ call = "constructor"
    /\ destroyedAt = 0
    /\ frames = 0

RenderInit ==
    \E options \in OptionSets, offscreenCtxOk \in BOOLEAN :
        Constructed(options, offscreenCtxOk)

RenderNext ==
    \/ DrawStroke
    \/ DrawStrokes
    \/ ClearLayer
    \/ Clear
    \/ Resize
    \/ GetImageData
    \/ RenderFrame
    \/ Destroy

HistoryInit ==
    /\ state = initialState
    /\ lastOps = <<>>
    /\ preStates = <<>>
    /\ sealed = <<>>
    /\ run = [draws |-> 0, undos |-> 0, pure |-> TRUE]
    /\ clears = 0

HistoryNext ==
    \/ DispatchDraw
    \/ DispatchUndo
    \/ DispatchRedo
    \/ DispatchClear
    \/ DispatchSetBrush

(***************************************************************************)
(* Painting onto named layers: the layer specification calls drawStroke,   *)
(* drawStrokes and clearLayer with every layer name of LayerArgs, and      *)
(* flushes the queues with getImageData.                                   *)
(***************************************************************************)
PaintStroke ==
    /\ CanSubmit
    /\ \E stroke \in StrokeArgs, layerName \in LayerArgs :
          Called("drawStroke", drawStroke(Begin, stroke, layerName, First), 1)
    /\ UNCHANGED <<clock, destroyedAt, frames>>

PaintStrokes ==
    /\ CanSubmit
    /\ \E strokes \in BatchArgs, layerName \in LayerArgs :
          Called("drawStrokes", drawStrokes(Begin, strokes, layerName, First), 1)
    /\ UNCHANGED <<clock, destroyedAt, frames>>

LayerNext ==
    \/ PaintStroke
    \/ PaintStrokes
    \/ ClearLayer
    \/ GetImageData

(***************************************************************************)
(* The gesture handlers of useAdvancedCanvas.                              *)
(***************************************************************************)
MaxGestures == 2    \* startDrawing calls per behaviour
MaxMoves == 2       \* continueDrawing calls per behaviour
MaxResizes == 1     \* resizeCanvas calls per behaviour

\* Points the pointer events carry.
PointArgs == { Pt(0, 0), Pt(2, 2), Pt(4, 0) }

\* distance < minDistance as the variant "the threshold is the brush size".
TooClose_FullSize(point, lastPoint, size) ==
    LET dx == point.x - lastPoint.x
        dy == point.y - lastPoint.y
    IN  dx * dx + dy * dy < size * size

\* Math.sqrt(dx^2 + dy^2) < size * 0.5, both sides squared and multiplied
\* by four (neither side is negative).
TooClose(point, lastPoint, size) ==
    LET dx == point.x - lastPoint.x
        dy == point.y - lastPoint.y
    IN  4 * (dx * dx + dy * dy) < size * size

\* currentStrokeRef.current.points.push(point): the stroke is one object, so
\* every queued closure that holds it sees the point too.
PushPoint(r, id, point) ==
    LET ops == r.batchedOperations
    IN  [r EXCEPT !.batchedOperations =
            [i \in 1..Len(ops) |->
                IF ops[i].kind = "drawStroke" /\ ops[i].stroke.id = id
                THEN [ops[i] EXCEPT !.stroke.points = Append(@, point)]
                ELSE ops[i]]]

HookCalled(name) ==
    /\ hookLog' = [hookLog EXCEPT !.call = name]
    /\ UNCHANGED <<lastOps, preStates, sealed, run, clears,
                   clock, call, destroyedAt, frames, deviceVars>>

startDrawing(point) ==
    /\ hook' = [ isDrawing     |-> TRUE,
                 lastPoint     |-> <<point>>,
                 currentStroke |->
                     << [ id     |-> hookLog.starts + 1,
                          points |-> <<point>>,
                          color  |-> state.brushSettings.color,
                          width  |-> state.brushSettings.size ] >> ]
    /\ hookLog' = [hookLog EXCEPT !.call = "startDrawing",
                                  !.starts = @ + 1,
                                  !.strokesAtStart = state.strokes,
                                  !.brushAtStart = <<state.brushSettings>>]
    /\ UNCHANGED <<histVars, renderVars, deviceVars>>

continueDrawing(point) ==
    /\ IF \/ ~hook.isDrawing
          \/ Len(hook.currentStroke) = 0
          \/ Len(hook.lastPoint) = 0
       THEN UNCHANGED <<hook, renderer, nextSeq>>
       ELSE IF TooClose(point, hook.lastPoint[1], state.brushSettings.size)
       THEN UNCHANGED <<hook, renderer, nextSeq>>
       ELSE LET longer == [hook.currentStroke[1] EXCEPT !.points = Append(@, point)]
            IN  /\ hook' = [hook EXCEPT !.currentStroke = <<longer>>,
                                        !.lastPoint = <<point>>]
                /\ renderer' = drawStroke(PushPoint(renderer, longer.id, point),
                                          longer, "drawing", First)
                /\ nextSeq' = nextSeq + 1
    /\ hookLog' = [hookLog EXCEPT !.call = "continueDrawing",
                                  !.moves = @ + 1,
                                  !.point = <<point>>]
    /\ UNCHANGED <<histVars, clock, call, destroyedAt, frames, deviceVars>>

StartDrawing ==
    /\ hookLog.starts < MaxGestures
    /\ \E point \in PointArgs : startDrawing(point)

ContinueDrawing ==
    /\ hookLog.moves < MaxMoves
    /\ \E point \in PointArgs : continueDrawing(point)

\* The mouse goes down at the origin and is dragged from there.
PressArgs == { Pt(0, 0) }
DragArgs == { Pt(4, 0), Pt(2, 2) }

MouseDown ==
    /\ hookLog.starts < MaxGestures
    /\ \E point \in PressArgs : startDrawing(point)

MouseMove ==
    /\ hookLog.moves < MaxMoves
    /\ \E point \in DragArgs : continueDrawing(point)

\* endDrawing(), called by the handler of the name given.
EndGesture(name) ==
    /\ IF ~hook.isDrawing \/ Len(hook.currentStroke) = 0
       THEN UNCHANGED <<hook, state>>
       ELSE /\ hook' = [ isDrawing     |-> FALSE,
                         currentStroke |-> <<>>,
                         lastPoint     |-> <<>> ]
            /\ state' = advancedCanvasReducer(
                            state, [type |-> "DRAW", payload |-> hook.currentStroke[1]])
    /\ HookCalled(name)
    /\ UNCHANGED <<renderer, nextSeq>>

EndDrawing == EndGesture("endDrawing")

HandleTouchCancel == EndGesture("handleTouchCancel")

SetBrush ==
    /\ \E settings \in BrushPayloads :
          state' = advancedCanvasReducer(state, [type |-> "SET_BRUSH", payload |-> settings])
    /\ HookCalled("setBrush")
    /\ UNCHANGED <<hook, renderer, nextSeq>>

\* undo(): the UNDO dispatch, then the clearing of the drawing layer and the
\* repaint of the strokes that remain.
Undo ==
    /\ IF Len(state.strokes) = 0
       THEN UNCHANGED <<state, renderer, nextSeq>>
       ELSE LET remainingStrokes == SliceInit(state.strokes)
                cleared == clearLayer(renderer, "drawing", First)
            IN  /\ state' = advancedCanvasReducer(state, [type |-> "UNDO"])
                /\ renderer' = IF Len(remainingStrokes) > 0
                               THEN drawStrokes(cleared, remainingStrokes, "drawing",
                                                <<nextSeq, 2>>)
                               ELSE cleared
                /\ nextSeq' = nextSeq + 1
    /\ HookCalled("undo")
    /\ UNCHANGED hook

\* resizeCanvas(width, height): the resize, then the repaint of the strokes.
ResizeCanvas ==
    /\ hookLog.resizes < MaxResizes
    /\ \E size \in SizeArgs :
          LET resized == resize(renderer, size.width, size.height, First)
          IN  renderer' = IF Len(state.strokes) > 0
                          THEN drawStrokes(resized, state.strokes, "drawing", <<nextSeq, 2>>)
                          ELSE resized
    /\ nextSeq' = nextSeq + 1
    /\ hookLog' = [hookLog EXCEPT !.call = "resizeCanvas", !.resizes = @ + 1]
    /\ UNCHANGED <<state, hook, lastOps, preStates, sealed, run, clears,
                   clock, call, destroyedAt, frames, deviceVars>>

\* The host calls the frame callback at the first timestamp for which the
\* frame interval has elapsed.
EligibleFrame ==
    /\ renderer.rafId # Null
    /\ frames < MaxFrames
    /\ \E gap \in FrameGaps, frameTime \in FrameTimes :
          /\ (clock + gap - renderer.lastFrameTime) * renderer.targetFrameRate >= 1000
          /\ renderer' = renderFrame(Begin, clock + gap, frameTime)
          /\ clock' = clock + gap
    /\ call' = "renderFrame"
    /\ frames' = frames + 1
    /\ hookLog' = [hookLog EXCEPT !.call = "frame"]
    /\ UNCHANGED <<histVars, hook, nextSeq, destroyedAt, deviceVars>>

\* The refs as useRef initializes them.
HookInit ==
    /\ hook = [isDrawing |-> FALSE, lastPoint |-> <<>>, currentStroke |-> <<>>]
    /\ hookLog = [ call |-> "mount", starts |-> 0, moves |-> 0, resizes |-> 0,
                   point |-> <<>>, strokesAtStart |-> <<>>, brushAtStart |-> <<>> ]

HookNext ==
    \/ StartDrawing
    \/ ContinueDrawing
    \/ EndDrawing
    \/ HandleTouchCancel
    \/ SetBrush

\* The canvas: mouse gestures and the frames that paint them.
CanvasNext ==
    \/ MouseDown
    \/ MouseMove
    \/ EndDrawing
    \/ EligibleFrame

\* The canvas with its undo button.
UndoNext ==
    \/ MouseDown
    \/ MouseMove
    \/ EndDrawing
    \/ Undo
    \/ EligibleFrame

\* The canvas in a window that is resized.
ResizeNext ==
    \/ MouseDown
    \/ MouseMove
    \/ EndDrawing
    \/ ResizeCanvas
    \/ EligibleFrame

(***************************************************************************)
(* PerformanceOptimizer.getDevicePerformanceLevel().                       *)
(*                                                                         *)
(* device.hardwareConcurrency is 0 where the browser reports none;         *)
(* device.memory is empty where performance.memory is missing, else the    *)
(* one value of totalJSHeapSize, counted in MiB.                           *)
(***************************************************************************)
MaxCores == 9       \* the largest hardwareConcurrency a device reports

MiBPerGiB == 1024

\* Heap sizes a device reports, in MiB.
HeapArgs == { 0, 2 * MiBPerGiB, 4 * MiBPerGiB - 1, 4 * MiBPerGiB,
              8 * MiBPerGiB - 1, 8 * MiBPerGiB, 16 * MiBPerGiB }

DeviceArgs ==
    [ hardwareConcurrency : 0..MaxCores,
      memory : {<<>>} \cup {<<t>> : t \in HeapArgs},
      isMobile : BOOLEAN ]

\* memoryGB >= gb, for memoryGB = total / (1024 * 1024 * 1024).
AtLeastGB(totalMiB, gb) == totalMiB >= gb * MiBPerGiB

\* The classification as the bug "the thresholds are exclusive".
getDevicePerformanceLevel_Exclusive(d) ==
    LET cores == IF d.hardwareConcurrency # 0 THEN d.hardwareConcurrency ELSE 2
        totalMiB == IF Len(d.memory) > 0 THEN d.memory[1] ELSE 4 * MiBPerGiB
    IN  IF d.isMobile
        THEN IF cores > 6 /\ totalMiB > 4 * MiBPerGiB THEN "medium" ELSE "low"
        ELSE IF cores > 8 /\ totalMiB > 8 * MiBPerGiB THEN "high"
        ELSE IF cores > 4 /\ totalMiB > 4 * MiBPerGiB THEN "medium"
        ELSE "low"

getDevicePerformanceLevel(d) ==
    LET cores == IF d.hardwareConcurrency # 0 THEN d.hardwareConcurrency ELSE 2
        totalMiB == IF Len(d.memory) > 0 THEN d.memory[1] ELSE 4 * MiBPerGiB
    IN  IF d.isMobile
        THEN IF cores >= 6 /\ AtLeastGB(totalMiB, 4) THEN "medium" ELSE "low"
        ELSE IF cores >= 8 /\ AtLeastGB(totalMiB, 8) THEN "high"
        ELSE IF cores >= 4 /\ AtLeastGB(totalMiB, 4) THEN "medium"
        ELSE "low"

\* The page is opened on some device, and the hook classifies it.
Classify ==
    /\ \E d \in DeviceArgs :
          /\ device' = <<d>>
          /\ level' = getDevicePerformanceLevel(d)
    /\ UNCHANGED <<histVars, renderVars, hookVars>>

DeviceInit ==
    /\ device = <<>>
    /\ level = Undefined

ClassifyNext == Classify

\* The history specification leaves the renderer alone, as the high tier's
\* options construct it; the renderer specification leaves the history alone.
InitHistory == HistoryInit /\ Constructed(HIGH_OPTIONS, TRUE) /\ HookInit /\ DeviceInit

InitRender == HistoryInit /\ RenderInit /\ HookInit /\ DeviceInit

InitLayer == HistoryInit /\ Constructed(HIGH_OPTIONS, TRUE) /\ HookInit /\ DeviceInit

InitHook == HistoryInit /\ Constructed(HIGH_OPTIONS, TRUE) /\ HookInit /\ DeviceInit

InitPaint == HistoryInit /\ Constructed(HIGH_OPTIONS, TRUE) /\ HookInit /\ DeviceInit

InitSession == HistoryInit /\ Constructed(HIGH_OPTIONS, TRUE) /\ HookInit /\ DeviceInit

InitStats == HistoryInit /\ RenderInit /\ HookInit /\ DeviceInit

InitLive == HistoryInit /\ Constructed(HIGH_OPTIONS, TRUE) /\ HookInit /\ DeviceInit

InitCanvas == HistoryInit /\ Constructed(HIGH_OPTIONS, TRUE) /\ HookInit /\ DeviceInit

InitUndo == HistoryInit /\ Constructed(HIGH_OPTIONS, TRUE) /\ HookInit /\ DeviceInit

InitResize == HistoryInit /\ Constructed(HIGH_OPTIONS, TRUE) /\ HookInit /\ DeviceInit

InitClassify == HistoryInit /\ Constructed(HIGH_OPTIONS, TRUE) /\ HookInit /\ DeviceInit

SpecHistory == InitHistory /\ [][HistoryNext]_vars

SpecRender == InitRender /\ [][RenderNext]_vars

SpecLayer == InitLayer /\ [][LayerNext]_vars

SpecHook == InitHook /\ [][HookNext]_vars

\* The renderer of the high tier, with its offscreen canvas.
SpecPaint == InitPaint /\ [][RenderNext]_vars

SpecSession == InitSession /\ [][SessionNext]_vars

\* Renderers of every frame rate.
SpecStats == InitStats /\ [][StatsNext]_vars

\* The host calls a registered callback eventually, again and again; of the
\* actions of LiveNext only HostFrame changes frames.
SpecLive == InitLive /\ [][LiveNext]_vars /\ WF_frames(CallbackArrives)

SpecCanvas == InitCanvas /\ [][CanvasNext]_vars

SpecUndo == InitUndo /\ [][UndoNext]_vars

SpecResize == InitResize /\ [][ResizeNext]_vars

SpecClassify == InitClassify /\ [][ClassifyNext]_vars

(***************************************************************************)
(* Properties of the stroke history.                                       *)
(***************************************************************************)
\* The two most recent dispatches were a, then b.
JustDid(a, b) == lastOps = <<a, b>>

\* The most recent dispatch was a.
LastWas(a) == Len(lastOps) >= 1 /\ Last(lastOps) = a

\* strokes and undoStack before the earlier of the two most recent dispatches.
Before2 == preStates[1]

\* strokes and undoStack before the most recent dispatch.
Before1 == Last(preStates)

RECURSIVE Flatten(_)
Flatten(batches) ==
    IF Len(batches) = 0 THEN <<>>
    ELSE Flatten(SliceInit(batches)) \o Last(batches)

Count(xs, x) == Cardinality({i \in 1..Len(xs) : xs[i] = x})

\* C1 as stated: from a state with a non-empty strokes list S, clear() followed
\* by one undo() yields strokes = S.
C1_ClearThenUndoRestores ==
    (JustDid("CLEAR", "UNDO") /\ Len(Before2.strokes) > 0)
        => state.strokes = Before2.strokes

\* C1 amended: from a state with a non-empty strokes list S, clear() followed
\* by one undo() leaves strokes empty (the undo finds nothing to take back) and
\* S lies untouched as the top batch of undoStack.
C1_ClearThenUndoLeavesEmpty ==
    (JustDid("CLEAR", "UNDO") /\ Len(Before2.strokes) > 0)
        => /\ state.strokes = <<>>
           /\ state.undoStack = Append(Before2.undoStack, Before2.strokes)

C1_Witness ==
    /\ JustDid("CLEAR", "UNDO")
    /\ Len(Before2.strokes) >= 2

\* C2 as stated: in every reachable state, undo() immediately followed by
\* redo() leaves strokes as it was and undoStack at its prior length.
C2_UndoRedoAlwaysRestores ==
    JustDid("UNDO", "REDO")
        => /\ state.strokes = Before2.strokes
           /\ Len(state.undoStack) = Len(Before2.undoStack)

\* C2 amended: undo() immediately followed by redo() leaves strokes as it was
\* and undoStack at its prior length in every state whose strokes list is
\* non-empty or whose undoStack is empty; from a state with an empty strokes
\* list and a non-empty undoStack the undo changes nothing and the redo
\* re-appends the top batch, so undoStack ends one batch shorter.
C2_UndoRedoRestores ==
    JustDid("UNDO", "REDO")
        => IF Len(Before2.strokes) > 0 \/ Len(Before2.undoStack) = 0
           THEN /\ state.strokes = Before2.strokes
                /\ Len(state.undoStack) = Len(Before2.undoStack)
           ELSE /\ state.strokes = Last(Before2.undoStack)
                /\ Len(state.undoStack) = Len(Before2.undoStack) - 1

C2_Witness ==
    /\ JustDid("UNDO", "REDO")
    /\ Len(Before2.strokes) >= 2
    /\ Len(Before2.undoStack) >= 1

C4_NDrawsNUndos ==
    (run.pure /\ run.undos = run.draws)
        => /\ state.strokes = <<>>
           /\ Len(state.undoStack) = run.draws
           /\ \A i \in 1..Len(state.undoStack) :
                 state.undoStack[i] = <<sealed[run.draws + 1 - i]>>

C4_Witness ==
    /\ run.pure
    /\ run.draws >= 2
    /\ run.undos = run.draws

\* C5: clear() empties strokes and pushes the whole list as one batch; a
\* redo() right after it gives back the pre-clear list in its order and
\* leaves undoStack as it was before the clear.
C5_ClearThenRedoRestores ==
    /\ LastWas("CLEAR")
          => /\ state.strokes = <<>>
             /\ state.undoStack = Append(Before1.undoStack, Before1.strokes)
    /\ JustDid("CLEAR", "REDO")
          => /\ state.strokes = Before2.strokes
             /\ state.undoStack = Before2.undoStack

C5_Witness ==
    /\ JustDid("CLEAR", "REDO")
    /\ Len(Before2.strokes) >= 2

\* C6 as stated: undo on an empty strokes list, redo on an empty undoStack and
\* clear on an empty strokes list each leave strokes and undoStack unchanged.
C6_EmptyOperationsAreNoOps ==
    /\ (LastWas("UNDO") /\ Len(Before1.strokes) = 0)
          => History(state) = Before1
    /\ (LastWas("REDO") /\ Len(Before1.undoStack) = 0)
          => History(state) = Before1
    /\ (LastWas("CLEAR") /\ Len(Before1.strokes) = 0)
          => History(state) = Before1

\* C6 amended: undo on an empty strokes list and redo on an empty undoStack
\* leave strokes and undoStack unchanged; clear on an empty strokes list leaves
\* strokes empty and pushes one empty batch onto undoStack.
C6_EmptyOperations ==
    /\ (LastWas("UNDO") /\ Len(Before1.strokes) = 0)
          => History(state) = Before1
    /\ (LastWas("REDO") /\ Len(Before1.undoStack) = 0)
          => History(state) = Before1
    /\ (LastWas("CLEAR") /\ Len(Before1.strokes) = 0)
          => /\ state.strokes = <<>>
             /\ state.undoStack = Append(Before1.undoStack, <<>>)

C6_Witness ==
    /\ JustDid("UNDO", "CLEAR")
    /\ Len(Before2.strokes) = 0
    /\ Len(Before2.undoStack) >= 1
    /\ Len(sealed) >= 1

(***************************************************************************)
(* Properties of the render loop and the compositor.                       *)
(***************************************************************************)
\* The submission numbers of a list of operations, in the list's order.
Seqs(ops) == [i \in 1..Len(ops) |-> ops[i].seq]

\* The operations a call executed, in the order it executed them.
Executed(journal) == SelectSeq(journal, LAMBDA e : e.ev = "exec")

\* What a call drew onto the visible surface, in the order it drew.
Composed(journal) ==
    SelectSeq(journal, LAMBDA e : e.ev \in {"clearRect", "drawImage", "drawOffscreen"})

\* Submission number a was given before submission number b.
Earlier(a, b) == a[1] < b[1] \/ (a[1] = b[1] /\ a[2] < b[2])

IsBatched(e) == e.kind \in {"drawStroke", "drawStrokes"}

IsImmediate(e) == e.kind \in {"clearLayer", "resize"}

\* The renderer as composeLayers finds it when the queues of r are processed.
BeforeCompose(r) ==
    DrainRenderQueue(IF Len(r.batchedOperations) > 0
                     THEN processBatchedOperations(r)
                     ELSE r)

\* C7: a tick executes the queued batched operations in submission order,
\* then the queued immediate operations in submission order.
C7_BatchedThenImmediateFifo ==
    [][ Len(Executed(renderer'.journal)) > 0
          => Seqs(Executed(renderer'.journal))
                = Seqs(renderer.batchedOperations) \o Seqs(renderer.renderQueue) ]_vars

C7_Witness ==
    LET done == Executed(renderer.journal)
    IN  /\ call = "renderFrame"
        /\ Cardinality({i \in 1..Len(done) : IsBatched(done[i])}) >= 2
        /\ Cardinality({i \in 1..Len(done) : IsImmediate(done[i])}) >= 2
        /\ \E i, j \in 1..Len(done) :
              IsBatched(done[i]) /\ IsImmediate(done[j]) /\ Earlier(done[j].seq, done[i].seq)

\* C8: a frame callback that comes before the frame interval has elapsed
\* executes nothing, draws nothing, and leaves the queues, lastFrameTime and
\* every surface as they were.
C8_EarlyFrameIsSkipped ==
    [][ (call' = "renderFrame"
            /\ (clock' - renderer.lastFrameTime) * renderer.targetFrameRate < 1000)
          => /\ renderer'.journal = <<>>
             /\ renderer'.batchedOperations = renderer.batchedOperations
             /\ renderer'.renderQueue = renderer.renderQueue
             /\ renderer'.lastFrameTime = renderer.lastFrameTime
             /\ renderer'.layers = renderer.layers
             /\ renderer'.mainCanvas = renderer.mainCanvas
             /\ renderer'.renderStats = renderer.renderStats ]_vars

C8_Witness ==
    /\ call = "renderFrame"
    /\ clock > renderer.lastFrameTime
    /\ (clock - renderer.lastFrameTime) * renderer.targetFrameRate < 1000
    /\ Len(renderer.batchedOperations) >= 1
    /\ Len(renderer.renderQueue) >= 1

\* C9: once destroy() has been called the frame callback is not registered and
\* never runs, destroy() leaves both queues empty, and no operation submitted
\* before the destroy() is queued or executed afterwards.
C9_DestroyDiscardsEverything ==
    destroyedAt > 0
        => /\ renderer.rafId = Null
           /\ call # "renderFrame"
           /\ call = "destroy"
                 => /\ renderer.batchedOperations = <<>>
                    /\ renderer.renderQueue = <<>>
           /\ \A i \in 1..Len(renderer.journal) :
                 renderer.journal[i].ev = "exec" => renderer.journal[i].seq[1] >= destroyedAt
           /\ \A i \in 1..Len(renderer.batchedOperations) :
                 renderer.batchedOperations[i].seq[1] >= destroyedAt
           /\ \A i \in 1..Len(renderer.renderQueue) :
                 renderer.renderQueue[i].seq[1] >= destroyedAt

\* Two operations were submitted and never processed before the destroy(); a
\* getImageData() after it executed an operation submitted after it.
C9_Witness ==
    /\ destroyedAt = 3
    /\ call = "getImageData"
    /\ renderer.renderStats.framesRendered = 1
    /\ Len(Executed(renderer.journal)) = 1

\* C10: composeLayers clears the visible surface, draws the layers that are
\* dirty, each once, in ascending zIndex, resets their flags, and draws the
\* offscreen canvas last when there is one; afterwards no layer is dirty and the
\* visible surface shows what was drawn onto it.
C10_ComposeDrawsDirtyLayersInOrder ==
    [][ Len(Composed(renderer'.journal)) > 0
          => LET before == BeforeCompose(renderer).layers
                 dirty == {n \in DOMAIN before : before[n].isDirty}
                 drew == Composed(renderer'.journal)
                 layered == SelectSeq(drew, LAMBDA e : e.ev = "drawImage")
                 offscreen == renderer'.offscreenCanvas
             IN  /\ drew[1].ev = "clearRect"
                 /\ Len(drew) = 1 + Len(layered) + (IF offscreen = {} THEN 0 ELSE 1)
                 /\ \A i \in 1..Len(layered) : drew[1 + i] = layered[i]
                 /\ offscreen # {} => drew[Len(drew)].ev = "drawOffscreen"
                 /\ {layered[i].layer : i \in 1..Len(layered)} = dirty
                 /\ \A i, j \in 1..Len(layered) :
                       i < j => before[layered[i].layer].zIndex
                                   < before[layered[j].layer].zIndex
                 /\ \A n \in DOMAIN renderer'.layers : ~renderer'.layers[n].isDirty
                 /\ renderer'.mainCanvas.content =
                       UNION {before[n].content : n \in dirty}
                          \cup UNION {c.content : c \in offscreen} ]_vars

C10_Witness ==
    LET drew == Composed(renderer.journal)
    IN  /\ call = "renderFrame"
        /\ Len(drew) = 4
        /\ drew[2].ev = "drawImage"
        /\ drew[3].ev = "drawImage"
        /\ drew[4].ev = "drawOffscreen"
        /\ renderer.mainCanvas.content # {}

(***************************************************************************)
(* Properties of painting.                                                 *)
(***************************************************************************)
\* The operations waiting in the two queues, in the order a tick runs them.
Queued(r) == r.batchedOperations \o r.renderQueue

\* A step that processed the queues.
Processed == Len(Executed(renderer'.journal)) > 0

\* Every waiting operation is a drawStroke of a stroke of fewer than two
\* points onto a layer that exists.
OnlyShortPaints(r) ==
    /\ Len(Queued(r)) > 0
    /\ \A i \in 1..Len(Queued(r)) :
          /\ Queued(r)[i].kind = "drawStroke"
          /\ Len(Queued(r)[i].stroke.points) < 2
          /\ Queued(r)[i].layerName \in DOMAIN r.layers

\* C11 as stated: a stroke of fewer than two points compiles to an empty path,
\* and executing drawStroke with it leaves the target layer's dirty flag as it
\* was and adds no entry to the dirty-region list.
C11_ShortStrokeLeavesNoTrace ==
    [][ (Processed /\ OnlyShortPaints(renderer))
          => LET ops == Queued(renderer)
                 painted == BeforeCompose(renderer)
             IN  /\ \A i \in 1..Len(ops) : createStrokePath(ops[i].stroke) = <<>>
                 /\ \A i \in 1..Len(ops) :
                       painted.layers[ops[i].layerName].isDirty
                          = renderer.layers[ops[i].layerName].isDirty
                 /\ renderer'.dirtyRegions = renderer.dirtyRegions ]_vars

\* C11 amended: a stroke of fewer than two points compiles to an empty path,
\* which is cached under the stroke's key, and executing drawStroke with it
\* puts no ink on the target layer; it does set the layer's dirty flag and
\* appends the stroke's dirty region (its point padded by half its width).
C11_ShortStrokeMarksDirty ==
    [][ (Processed /\ OnlyShortPaints(renderer))
          => LET ops == Queued(renderer)
                 painted == BeforeCompose(renderer)
             IN  /\ \A i \in 1..Len(ops) :
                       /\ createStrokePath(ops[i].stroke) = <<>>
                       /\ getStrokeCacheKey(ops[i].stroke) \in DOMAIN renderer'.strokeCache
                       /\ renderer'.strokeCache[getStrokeCacheKey(ops[i].stroke)] = <<>>
                       /\ painted.layers[ops[i].layerName].isDirty
                       /\ painted.layers[ops[i].layerName].content
                             = renderer.layers[ops[i].layerName].content
                 /\ renderer'.dirtyRegions
                       = renderer.dirtyRegions
                            \o [i \in 1..Len(ops) |-> getStrokeBounds(ops[i].stroke)] ]_vars

\* The first tick of a renderer painted two strokes of one point each.
C11_Witness ==
    LET done == Executed(renderer.journal)
    IN  /\ call \in {"renderFrame", "getImageData"}
        /\ renderer.renderStats.framesRendered = 1
        /\ Len(done) >= 2
        /\ \A i \in 1..Len(done) : done[i].kind = "drawStroke"
        /\ "drawing" \in DOMAIN renderer.layers
        /\ renderer.layers["drawing"].content = {}
        /\ Len(renderer.dirtyRegions) = Len(done)
        /\ \E i \in 1..Len(renderer.journal) :
              renderer.journal[i] = [ev |-> "drawImage", layer |-> "drawing"]

\* Every entry of the path cache before the step is an entry after it.
CacheKept ==
    \A k \in DOMAIN renderer.strokeCache :
        /\ k \in DOMAIN renderer'.strokeCache
        /\ renderer'.strokeCache[k] = renderer.strokeCache[k]

\* C12 as stated: the path cache never loses an entry before destroy(); in
\* particular every entry present before clear() is present after it.
C12_CacheNeverShrinks ==
    [][ call' # "destroy" => CacheKept ]_vars

\* C12 amended: the path cache has no eviction by size or age, but clear()
\* resets it: after clear() the cache is empty, whatever it held. Every call
\* but clear() and destroy() keeps every entry.
C12_CacheShrinksOnlyOnClear ==
    [][ /\ call' = "clear" => renderer'.strokeCache = EmptyMap
        /\ call' \notin {"clear", "destroy"} => CacheKept ]_vars

\* clear() has just dropped the cached paths of two strokes.
C12_Witness ==
    /\ call = "clear"
    /\ renderer.strokeCache = EmptyMap
    /\ \E i \in 1..Len(renderer.journal) :
          /\ renderer.journal[i].ev = "cacheClear"
          /\ Cardinality(renderer.journal[i].dropped) >= 2

\* The step executed a queued operation of the kind given.
Ran(kind) ==
    \E i \in 1..Len(renderer'.journal) :
        renderer'.journal[i].ev = "exec" /\ renderer'.journal[i].kind = kind

\* No layer, nor the offscreen canvas, nor the visible surface shows anything.
AllBlank(r) ==
    /\ r.mainCanvas.content = {}
    /\ \A c \in r.offscreenCanvas : c.content = {}
    /\ \A n \in DOMAIN r.layers : r.layers[n].content = {}

\* What the visible surface shows lies on a layer or on the offscreen canvas.
ShowsOnlyLayers(r) ==
    r.mainCanvas.content
        \subseteq UNION ({r.layers[n].content : n \in DOMAIN r.layers}
                            \cup {c.content : c \in r.offscreenCanvas})

\* C13: a tick that executes a queued resize leaves every layer, the offscreen
\* canvas and the visible surface blank; and as long as the renderer lives the
\* visible surface shows only what lies on a layer, so that what getImageData
\* encodes after a resize was painted after the resize.
C13_ResizeBlanksEverySurface ==
    [][ /\ Ran("resize") => AllBlank(renderer')
        /\ destroyedAt' = 0 => ShowsOnlyLayers(renderer') ]_vars

\* A first tick painted the three point line and showed it; the second tick
\* executed a resize and nothing else.
C13_Witness ==
    LET done == Executed(renderer.journal)
    IN  /\ call \in {"renderFrame", "getImageData"}
        /\ nextSeq = 3
        /\ renderer.renderStats.framesRendered = 2
        /\ Len(done) = 1
        /\ done[1].kind = "resize"
        /\ getStrokeCacheKey(LineStroke) \in DOMAIN renderer.strokeCache
        /\ AllBlank(renderer)

\* C14: when getImageData() returns, both queues are empty, every operation
\* that was queued before the call has been executed, batched first, and the
\* layers have been composed after the last of them; the frame interval plays
\* no part (the call neither reads nor sets lastFrameTime).
C14_GetImageDataFlushes ==
    [][ call' = "getImageData"
          => LET done == Executed(renderer'.journal)
                 drew == Composed(renderer'.journal)
             IN  /\ renderer'.batchedOperations = <<>>
                 /\ renderer'.renderQueue = <<>>
                 /\ Seqs(done) = Seqs(Queued(renderer))
                 /\ renderer'.lastFrameTime = renderer.lastFrameTime
                 /\ Len(Queued(renderer)) > 0
                       => /\ Len(drew) > 0
                          /\ SubSeq(renderer'.journal, 1, Len(done)) = done ]_vars

\* getImageData() ran a batched and an immediate operation at a time when a
\* frame callback would have been skipped.
C14_Witness ==
    LET done == Executed(renderer.journal)
    IN  /\ call = "getImageData"
        /\ clock > renderer.lastFrameTime
        /\ (clock - renderer.lastFrameTime) * renderer.targetFrameRate < 1000
        /\ \E i, j \in 1..Len(done) : IsBatched(done[i]) /\ IsImmediate(done[j])
        /\ Len(Composed(renderer.journal)) > 0

(***************************************************************************)
(* Properties of the gesture handlers.                                     *)
(***************************************************************************)
\* A gesture is active: startDrawing has run and endDrawing has not.
Drawing == hook.isDrawing /\ Len(hook.currentStroke) > 0

\* C15 as stated: a touch cancel during an active gesture discards the current
\* stroke: no gesture is active afterwards and strokes is what it was when the
\* gesture began.
C15_CancelDiscardsStroke ==
    [][ (hookLog'.call = "handleTouchCancel" /\ Drawing)
          => /\ ~hook'.isDrawing
             /\ hook'.currentStroke = <<>>
             /\ state'.strokes = hookLog.strokesAtStart ]_vars

\* A touch cancel ended the second gesture, and its stroke of two points is
\* the last of strokes.
C15_Witness ==
    /\ hookLog.call = "handleTouchCancel"
    /\ ~hook.isDrawing
    /\ Len(hookLog.strokesAtStart) = 1
    /\ Len(state.strokes) = 2
    /\ Len(state.strokes[2].points) = 2

\* C16: during an active gesture continueDrawing forwards the candidate point
\* exactly when its distance from the last accepted point is at least half the
\* current brush size: the point is appended to the current stroke, becomes
\* the last accepted point, and one drawStroke of the current stroke onto the
\* drawing layer is appended to the batched queue. A rejected point changes
\* neither the current stroke, nor the last accepted point, nor a queue.
C16_DistanceFilter ==
    [][ (hookLog'.call = "continueDrawing" /\ Drawing /\ Len(hook.lastPoint) > 0)
          => LET point == hookLog'.point[1]
                 last == hook.lastPoint[1]
                 size == state.brushSettings.size
                 squared == (point.x - last.x) * (point.x - last.x)
                               + (point.y - last.y) * (point.y - last.y)
                 stroke == hook.currentStroke[1]
                 batched == renderer'.batchedOperations
             IN  IF 4 * squared >= size * size
                 THEN /\ hook'.isDrawing
                      /\ hook'.currentStroke
                            = <<[stroke EXCEPT !.points = Append(@, point)]>>
                      /\ hook'.lastPoint = <<point>>
                      /\ Len(batched) = Len(renderer.batchedOperations) + 1
                      /\ Last(batched).kind = "drawStroke"
                      /\ Last(batched).layerName = "drawing"
                      /\ Last(batched).stroke = hook'.currentStroke[1]
                      /\ renderer'.renderQueue = renderer.renderQueue
                 ELSE /\ hook' = hook
                      /\ renderer'.batchedOperations = renderer.batchedOperations
                      /\ renderer'.renderQueue = renderer.renderQueue ]_vars

\* With the brush of size 8, a first candidate at distance 4 was accepted and a
\* second one at a distance between 2 and 4 was rejected.
C16_Witness ==
    /\ hookLog.call = "continueDrawing"
    /\ Drawing
    /\ state.brushSettings.size = 8
    /\ Len(hook.currentStroke[1].points) = 2
    /\ Len(renderer.batchedOperations) = 1
    /\ hookLog.point # hook.lastPoint
    /\ hook.currentStroke[1].width = 8

(***************************************************************************)
(* Properties of the device classification.                                *)
(***************************************************************************)
\* The device's memory in GB is at least gb, a missing measurement counting
\* as 4 GB.
MemoryAtLeast(d, gb) ==
    IF Len(d.memory) = 0 THEN 4 >= gb ELSE d.memory[1] >= gb * MiBPerGiB

\* C17: the tier is, on a mobile device, medium with at least 6 cores and 4 GB
\* and low otherwise; on any other device high with at least 8 cores and 8 GB,
\* medium with at least 4 cores and 4 GB, and low otherwise; memory counts as
\* 4 GB when it is not measured. So {8 cores, 8 GB, not mobile} is high,
\* {2, 2 GB, mobile} is low, {6, 4 GB, mobile} is medium, and the result is
\* always one of the three tiers.
C17_ClassifyByCoresMemoryMobile ==
    Len(device) > 0
        => LET d == device[1]
               cores == d.hardwareConcurrency
           IN  /\ level \in {"low", "medium", "high"}
               /\ level =
                     IF d.isMobile
                     THEN IF cores >= 6 /\ MemoryAtLeast(d, 4) THEN "medium" ELSE "low"
                     ELSE IF cores >= 8 /\ MemoryAtLeast(d, 8) THEN "high"
                     ELSE IF cores >= 4 /\ MemoryAtLeast(d, 4) THEN "medium"
                     ELSE "low"
               /\ (cores = 8 /\ d.memory = <<8 * MiBPerGiB>> /\ ~d.isMobile)
                     => level = "high"
               /\ (cores = 2 /\ d.memory = <<2 * MiBPerGiB>> /\ d.isMobile)
                     => level = "low"
               /\ (cores = 6 /\ d.memory = <<4 * MiBPerGiB>> /\ d.isMobile)
                     => level = "medium"

\* A mobile device of 6 cores and 4 GB has been classified as medium.
C17_Witness ==
    /\ device = << [hardwareConcurrency |-> 6, memory |-> <<4 * MiBPerGiB>>,
                    isMobile |-> TRUE] >>
    /\ level = "medium"

(***************************************************************************)
(* Properties of painting onto named layers.                               *)
(***************************************************************************)
\* The operation paints or clears a layer the renderer does not have.
NamesMissingLayer(r, op) ==
    /\ op.kind \in {"drawStroke", "drawStrokes", "clearLayer"}
    /\ op.layerName \notin DOMAIN r.layers

\* The renderer without the queued operations that name a missing layer.
WithoutMissing(r) ==
    [r EXCEPT !.batchedOperations = SelectSeq(@, LAMBDA op : ~NamesMissingLayer(r, op)),
              !.renderQueue = SelectSeq(@, LAMBDA op : ~NamesMissingLayer(r, op))]

\* The layers, the path cache and the dirty regions of a renderer.
Painted(r) ==
    [layers |-> r.layers, strokeCache |-> r.strokeCache, dirtyRegions |-> r.dirtyRegions]

\* C18: executing a drawStroke, drawStrokes or clearLayer that names a layer
\* the renderer does not have raises no error and does nothing: the tick runs
\* every queued operation to the end, and the layers, their dirty flags, the
\* path cache and the dirty regions come out as they would had those operations
\* never been queued; a tick of such operations alone leaves them as they were.
C18_MissingLayerIsNoOp ==
    [][ Processed
          => /\ Seqs(Executed(renderer'.journal)) = Seqs(Queued(renderer))
             /\ Painted(BeforeCompose(renderer))
                   = Painted(BeforeCompose(WithoutMissing(renderer)))
             /\ Len(Queued(WithoutMissing(renderer))) = 0
                   => /\ Painted(BeforeCompose(renderer)) = Painted(renderer)
                      /\ Painted(renderer') = Painted(renderer) ]_vars

\* The first tick ran a drawStroke, a drawStrokes and a clearLayer, and drew no
\* layer, cached no path and noted no dirty region.
C18_Witness ==
    LET done == Executed(renderer.journal)
    IN  /\ call = "getImageData"
        /\ renderer.renderStats.framesRendered = 1
        /\ {done[i].kind : i \in 1..Len(done)} = {"drawStroke", "drawStrokes", "clearLayer"}
        /\ \A i \in 1..Len(renderer.journal) : renderer.journal[i].ev # "drawImage"
        /\ renderer.strokeCache = EmptyMap
        /\ renderer.dirtyRegions = <<>>
        /\ DOMAIN renderer.layers = {"background", "drawing", "ui"}

(***************************************************************************)
(* Properties of the brush.                                                *)
(***************************************************************************)
\* The stroke has the color and the width of the brush given.
StyledBy(stroke, brush) == stroke.color = brush.color /\ stroke.width = brush.size

\* C19: setBrush changes brushSettings and nothing else: strokes, undoStack,
\* the current stroke and the queued paints are as they were, so no sealed
\* stroke changes its color or width. The current stroke has at every moment
\* the color and width the brush had when its gesture started, and so has the
\* stroke a gesture end seals.
C19_SetBrushChangesBrushOnly ==
    [][ /\ hookLog'.call = "setBrush"
           => /\ [state' EXCEPT !.brushSettings = state.brushSettings] = state
              /\ \E settings \in BrushPayloads :
                    state'.brushSettings = Spread(state.brushSettings, settings)
              /\ hook' = hook
              /\ renderer' = renderer
        /\ Len(hook'.currentStroke) > 0
           => StyledBy(hook'.currentStroke[1], hookLog'.brushAtStart[1])
        /\ (hookLog'.call \in {"endDrawing", "handleTouchCancel"} /\ Drawing)
           => /\ state'.strokes = Append(state.strokes, hook.currentStroke[1])
              /\ StyledBy(Last(state'.strokes), hookLog.brushAtStart[1]) ]_vars

\* The brush was changed during the second gesture: both sealed strokes have
\* the default color and width, the brush is red and of size 8.
C19_Witness ==
    /\ hookLog.call = "endDrawing"
    /\ Len(state.strokes) = 2
    /\ \A i \in 1..2 : /\ state.strokes[i].color = DEFAULT_COLOR
                       /\ state.strokes[i].width = DEFAULT_SIZE
    /\ state.brushSettings.color = RED
    /\ state.brushSettings.size = 8
    /\ hookLog.brushAtStart[1].color = DEFAULT_COLOR

(***************************************************************************)
(* Properties of a tick.                                                   *)
(***************************************************************************)
\* The step is a frame callback that found the frame interval elapsed.
ElapsedTick ==
    /\ call' = "renderFrame"
    /\ (clock' - renderer.lastFrameTime) * renderer.targetFrameRate >= 1000

\* The step executed every queued operation, batched first, then composed the
\* layers, then counted one frame, and left both queues empty.
RanWholeTick ==
    LET done == Executed(renderer'.journal)
        drew == Composed(renderer'.journal)
    IN  /\ Seqs(done) = Seqs(renderer.batchedOperations) \o Seqs(renderer.renderQueue)
        /\ Len(drew) > 0
        /\ renderer'.journal = done \o drew
        /\ renderer'.renderStats.framesRendered = renderer.renderStats.framesRendered + 1
        /\ renderer'.batchedOperations = <<>>
        /\ renderer'.renderQueue = <<>>

\* C20 as stated: every tick that finds the frame interval elapsed executes the
\* batched, then the immediate operations, composes, and counts one frame.
C20_EveryElapsedTickRendersAFrame ==
    [][ ElapsedTick => RanWholeTick ]_vars

\* C20 amended: a tick that finds the frame interval elapsed and an operation
\* queued executes the batched, then the immediate operations, composes, counts
\* one frame and leaves both queues empty; one that finds both queues empty
\* composes nothing and counts no frame. Either sets lastFrameTime.
C20_ElapsedTickWithWorkRendersAFrame ==
    [][ ElapsedTick
          => /\ renderer'.lastFrameTime = clock'
             /\ IF Len(Queued(renderer)) > 0
                THEN RanWholeTick
                ELSE /\ renderer'.journal = <<>>
                     /\ renderer'.renderStats = renderer.renderStats
                     /\ renderer'.mainCanvas = renderer.mainCanvas
                     /\ renderer'.layers = renderer.layers
                     /\ Len(Queued(renderer')) = 0 ]_vars

\* The second tick that found the interval elapsed ran a batched and an
\* immediate operation and counted the second frame.
C20_Witness ==
    LET done == Executed(renderer.journal)
    IN  /\ call = "renderFrame"
        /\ renderer.lastFrameTime = clock
        /\ frames = 2
        /\ renderer.renderStats.framesRendered = 2
        /\ \E i, j \in 1..Len(done) : i < j /\ IsBatched(done[i]) /\ IsImmediate(done[j])
        /\ Len(Queued(renderer)) = 0

(***************************************************************************)
(* Properties of the surfaces.                                             *)
(***************************************************************************)
\* The layers, the offscreen canvas and the visible surface of a renderer.
Surfaces(r) ==
    [layers |-> r.layers, offscreenCanvas |-> r.offscreenCanvas, mainCanvas |-> r.mainCanvas]

\* The step wrote to a surface: it ran a queued operation, or drew or cleared
\* on the visible surface or the offscreen canvas.
WroteSurface ==
    \E i \in 1..Len(renderer'.journal) :
        renderer'.journal[i].ev
            \in {"exec", "clearRect", "drawImage", "drawOffscreen", "clearOffscreen"}

\* The step only appended to the queues of the kinds given.
OnlyEnqueued(batched, immediate) ==
    LET b == renderer.batchedOperations
        q == renderer.renderQueue
    IN  /\ Len(renderer'.batchedOperations) = Len(b) + batched
        /\ SubSeq(renderer'.batchedOperations, 1, Len(b)) = b
        /\ Len(renderer'.renderQueue) = Len(q) + immediate
        /\ SubSeq(renderer'.renderQueue, 1, Len(q)) = q
        /\ Surfaces(renderer') = Surfaces(renderer)

\* C21 as stated: only a tick writes to a surface; drawStroke, drawStrokes,
\* clearLayer, clear and resize write to none.
C21_OnlyTicksWriteSurfaces ==
    [][ /\ WroteSurface => call' = "renderFrame"
        /\ Surfaces(renderer') # Surfaces(renderer) => call' = "renderFrame" ]_vars

\* C21 amended: drawStroke, drawStrokes, clearLayer and resize only enqueue
\* one operation and write to no surface. clear() enqueues one clearLayer per
\* layer and writes to no layer and not to the visible surface, but it clears
\* the offscreen canvas, when there is one, in the call itself. The layers and
\* the visible surface are written only while the queues are processed, by a
\* tick or by getImageData(), and when destroy() drops them.
C21_CommandsEnqueueButClear ==
    [][ /\ call' \in {"drawStroke", "drawStrokes"}
           => OnlyEnqueued(1, 0) /\ ~WroteSurface
        /\ call' \in {"clearLayer", "resize"}
           => OnlyEnqueued(0, 1) /\ ~WroteSurface
        /\ call' = "clear"
           => /\ OnlyEnqueued(0, Cardinality(DOMAIN renderer.layers))
              /\ renderer'.journal[1].ev
                    = IF renderer.offscreenCanvas # {} THEN "clearOffscreen" ELSE "cacheClear"
              /\ \A i \in 1..Len(renderer'.journal) :
                    renderer'.journal[i].ev \in {"clearOffscreen", "cacheClear"}
        /\ (WroteSurface \/ Surfaces(renderer') # Surfaces(renderer))
           => call' \in {"renderFrame", "getImageData", "clear", "destroy"} ]_vars

\* clear() has cleared the offscreen canvas while the drawing layer and the
\* visible surface still show a stroke, their clearing being queued.
C21_Witness ==
    /\ call = "clear"
    /\ renderer.journal[1].ev = "clearOffscreen"
    /\ Len(renderer.renderQueue) = 3
    /\ renderer.layers["drawing"].content # {}
    /\ renderer.mainCanvas.content # {}

(***************************************************************************)
(* Properties of the canvas: the hook and the renderer together.           *)
(***************************************************************************)
\* The strokes the program holds: the stroke of the gesture, the sealed
\* strokes, and the strokes the queued drawStroke closures refer to.
LiveStrokes ==
    {hook.currentStroke[i] : i \in 1..Len(hook.currentStroke)}
        \cup {state.strokes[i] : i \in 1..Len(state.strokes)}
        \cup {renderer.batchedOperations[i].stroke :
                i \in {j \in 1..Len(renderer.batchedOperations) :
                         renderer.batchedOperations[j].kind = "drawStroke"}}

\* C22: a stroke's points only grow by appending, and the path a cache hit
\* under (id, point count, color, width) returns for a stroke is the path
\* built from the stroke's current points; it is the path on the drawing
\* layer.
C22_CacheHitIsCurrentPath ==
    \A stroke \in LiveStrokes :
        LET cacheKey == getStrokeCacheKey(stroke)
        IN  cacheKey \in DOMAIN renderer.strokeCache
               => /\ renderer.strokeCache[cacheKey] = createStrokePath(stroke)
                  /\ Ink(createStrokePath(stroke), stroke)
                        \subseteq renderer.layers["drawing"].content

\* The stroke of the gesture was painted with two points in one tick and with
\* three in the next; the cache holds a path for each point count.
C22_Witness ==
    /\ call = "renderFrame"
    /\ Drawing
    /\ Len(hook.currentStroke[1].points) = 3
    /\ \E shorter \in DOMAIN renderer.strokeCache :
          /\ shorter[1] = hook.currentStroke[1].id
          /\ shorter[2] = 2
          /\ Len(renderer.strokeCache[shorter]) = 2
    /\ getStrokeCacheKey(hook.currentStroke[1]) \in DOMAIN renderer.strokeCache
    /\ Len(renderer.strokeCache[getStrokeCacheKey(hook.currentStroke[1])]) = 3
    /\ Cardinality(renderer.layers["drawing"].content) = 2

(***************************************************************************)
(* Properties of the dirty regions.                                        *)
(***************************************************************************)
\* The number of strokes of the session that were painted.
PaintedCount == (nextSeq - 1) - Len(renderer.batchedOperations)

\* The regions added so far, oldest first.
RegionsAdded == [k \in 1..PaintedCount |-> getStrokeBounds(StrokeNo(k))]

\* C23: the list of dirty regions never holds more than the capacity of 100;
\* it holds the most recently added regions in the order they were added, all
\* of them until the capacity is first exceeded.
C23_DirtyRegionsBoundedNewestKept ==
    LET kept == renderer.dirtyRegions
    IN  /\ Len(kept) <= DIRTY_REGION_LIMIT
        /\ Len(kept) <= PaintedCount
        /\ kept = SubSeq(RegionsAdded, PaintedCount - Len(kept) + 1, PaintedCount)
        /\ PaintedCount <= DIRTY_REGION_LIMIT => Len(kept) = PaintedCount
        /\ PaintedCount > DIRTY_REGION_LIMIT => Len(kept) >= DIRTY_REGION_KEEP

\* The region of the stroke after the hundredth was added: the oldest regions
\* were dropped, the region of the first among them.
C23_Witness ==
    /\ call = "renderFrame"
    /\ PaintedCount = DIRTY_REGION_LIMIT + 1
    /\ Len(renderer.dirtyRegions) = DIRTY_REGION_KEEP
    /\ renderer.dirtyRegions[1] # getStrokeBounds(StrokeNo(1))
    /\ renderer.dirtyRegions[DIRTY_REGION_KEEP]
          = getStrokeBounds(StrokeNo(DIRTY_REGION_LIMIT + 1))

(***************************************************************************)
(* Properties of the frame statistics.                                     *)
(***************************************************************************)
\* C24: framesRendered and droppedFrames never decrease, droppedFrames is at
\* most framesRendered, and a processed frame adds one to droppedFrames
\* exactly when its processing time exceeds 1.5 times 1000 / frameRate.
C24_StatsMonotoneDroppedWhenSlow ==
    [][ LET before == renderer.renderStats
            after == renderer'.renderStats
            frameTime == after.totalRenderTime - before.totalRenderTime
            counted == after.framesRendered - before.framesRendered
            dropped == after.droppedFrames - before.droppedFrames
        IN  /\ counted \in {0, 1}
            /\ dropped \in {0, 1}
            /\ after.droppedFrames <= after.framesRendered
            /\ counted = 0 => after = before
            /\ counted = 1 =>
                  (dropped = 1 <=> 2 * frameTime * renderer.targetFrameRate > 3 * 1000) ]_vars

\* At 15 frames per second a frame of 100 ms and a frame of 150 ms were
\* processed: the second is the one dropped frame.
C24_Witness ==
    /\ call = "renderFrame"
    /\ renderer.targetFrameRate = 15
    /\ renderer.renderStats = [framesRendered |-> 2, droppedFrames |-> 1,
                               totalRenderTime |-> 250]

(***************************************************************************)
(* Properties of the renderer that is never destroyed.                     *)
(***************************************************************************)
\* The operation of the submission number given waits in a queue of r.
Waits(r, seq) == \E i \in 1..Len(Queued(r)) : Queued(r)[i].seq = seq

\* The last call executed the operation of the submission number given.
JustExecuted(seq) ==
    \E i \in 1..Len(renderer.journal) :
        renderer.journal[i].ev = "exec" /\ renderer.journal[i].seq = seq

SubmissionNumbers == {<<c, 1>> : c \in 1..MaxOps}

\* C25: while frame callbacks keep arriving and destroy() is not called, an
\* operation enqueued by drawStroke, drawStrokes, clearLayer or resize is
\* executed eventually, and once: a call executes only operations that
\* waited, each once, and none of them waits afterwards; an operation stops
\* waiting only by being executed; and an operation that starts to wait is a
\* new one.
C25_EveryOperationRunsOnce ==
    /\ \A seq \in SubmissionNumbers : Waits(renderer, seq) ~> JustExecuted(seq)
    /\ [][ LET done == Executed(renderer'.journal)
           IN  /\ \A i \in 1..Len(done) :
                     /\ Waits(renderer, done[i].seq)
                     /\ ~Waits(renderer', done[i].seq)
                     /\ \A j \in 1..Len(done) : done[j].seq = done[i].seq => j = i
               /\ \A seq \in SubmissionNumbers :
                     /\ Waits(renderer, seq) /\ ~Waits(renderer', seq)
                           => \E i \in 1..Len(done) : done[i].seq = seq
                     /\ ~Waits(renderer, seq) /\ Waits(renderer', seq)
                           => seq[1] = nextSeq /\ nextSeq' = nextSeq + 1 ]_vars

\* A tick has executed the three operations that waited, a drawStroke after
\* a resize and a clearLayer that were enqueued before it.
C25_Witness ==
    /\ call = "renderFrame"
    /\ Len(Executed(renderer.journal)) = 3
    /\ Executed(renderer.journal)[1] = [ev |-> "exec", seq |-> <<3, 1>>, kind |-> "drawStroke"]
    /\ Executed(renderer.journal)[2].kind = "resize"
    /\ Executed(renderer.journal)[3].kind = "clearLayer"
    /\ \A seq \in {<<1, 1>>, <<2, 1>>, <<3, 1>>} : JustExecuted(seq)
    /\ Len(Queued(renderer)) = 0

(***************************************************************************)
(* Properties of undo and of resizing on the canvas.                       *)
(***************************************************************************)
\* What the strokes of a list leave on a layer when they are painted.
InkOf(strokes) ==
    UNION {Ink(createStrokePath(strokes[i]), strokes[i]) : i \in 1..Len(strokes)}

\* The step is a tick that processed the queues and follows the hook call of
\* the name given, with no gesture under way.
TickAfter(name) ==
    /\ hookLog.call = name
    /\ hookLog'.call = "frame"
    /\ Processed
    /\ ~Drawing

\* C26: after undo() has left one stroke or more, the next tick that
\* processes the queues leaves exactly the remaining strokes on the drawing
\* layer: the clearing that undo enqueued acts before its repaint.
C26_UndoShowsRemainingStrokes ==
    [][ TickAfter("undo") /\ Len(state.strokes) >= 1
           => renderer'.layers["drawing"].content = InkOf(state.strokes) ]_vars

\* Two strokes were drawn and the second undone; the tick ran the repaint of
\* the first stroke and then the clearing, and the drawing layer is blank.
C26_Witness ==
    /\ hookLog.call = "frame"
    /\ Len(state.strokes) = 1
    /\ Len(state.undoStack) = 1
    /\ InkOf(state.strokes) # {}
    /\ \E i, j \in 1..Len(renderer.journal) :
          /\ i < j
          /\ renderer.journal[i].ev = "exec" /\ renderer.journal[i].kind = "drawStrokes"
          /\ renderer.journal[j].ev = "exec" /\ renderer.journal[j].kind = "clearLayer"
    /\ renderer.layers["drawing"].content = {}

\* C27: after resizeCanvas(width, height) was called with strokes in the
\* list, the next tick that processes the queues leaves all strokes of the
\* list on the drawing layer: the replay acts after the resize has blanked
\* the layers.
C27_ResizeReplaysStrokes ==
    [][ TickAfter("resizeCanvas") /\ Len(state.strokes) >= 1
           => InkOf(state.strokes) \subseteq renderer'.layers["drawing"].content ]_vars

\* A stroke was drawn and painted and the canvas resized; the tick ran the
\* replay and then the resize, and the drawing layer is blank.
C27_Witness ==
    /\ hookLog.call = "frame"
    /\ hookLog.resizes = 1
    /\ InkOf(state.strokes) # {}
    /\ \E i, j \in 1..Len(renderer.journal) :
          /\ i < j
          /\ renderer.journal[i].ev = "exec" /\ renderer.journal[i].kind = "drawStrokes"
          /\ renderer.journal[j].ev = "exec" /\ renderer.journal[j].kind = "resize"
    /\ renderer.layers["drawing"].content = {}
    /\ renderer.mainCanvas.content = {}

(***************************************************************************)
(* Properties of the visible surface across ticks.                         *)
(***************************************************************************)
\* C28: what a layer holds and the visible surface shows stays on the
\* visible surface through a later tick that leaves the layer as it is,
\* whatever the tick does to other layers.
C28_PaintedContentStaysVisible ==
    [][ call' = "renderFrame" /\ Processed
           => \A name \in DOMAIN renderer.layers \cap DOMAIN renderer'.layers :
                 LET content == renderer.layers[name].content
                 IN  /\ content # {}
                     /\ renderer'.layers[name].content = content
                     /\ content \subseteq renderer.mainCanvas.content
                     => content \subseteq renderer'.mainCanvas.content ]_vars

\* A tick has cleared and composed the ui layer only; the drawing layer still
\* holds its stroke, and the visible surface is blank.
C28_Witness ==
    /\ call = "renderFrame"
    /\ renderer.layers # EmptyMap
    /\ renderer.layers["drawing"].content # {}
    /\ Composed(renderer.journal)
          = <<[ev |-> "clearRect"], [ev |-> "drawImage", layer |-> "ui"],
              [ev |-> "drawOffscreen"]>>
    /\ renderer.mainCanvas.content = {}

(***************************************************************************)
(* Properties of the order of the strokes.                                 *)
(***************************************************************************)
\* C29: the strokes list is in the order the strokes were sealed in; ids are
\* given in that order.
C29_StrokesInSealOrder ==
    \A i, j \in 1..Len(state.strokes) :
        i < j => state.strokes[i].id < state.strokes[j].id

\* A stroke was undone, a second stroke drawn and the first redone: the
\* second stroke comes before the first.
C29_Witness ==
    /\ lastOps = <<"DRAW", "REDO">>
    /\ Len(sealed) = 2
    /\ state.strokes = <<sealed[2], sealed[1]>>
    /\ state.undoStack = <<>>

(***************************************************************************)
(* Properties of the sealed strokes.                                       *)
(***************************************************************************)
\* C30: every stroke that endDrawing appended to strokes has two points or
\* more, and so compiles to a path that is not empty.
C30_SealedStrokesHaveTwoPoints ==
    \A i \in 1..Len(state.strokes) :
        /\ Len(state.strokes[i].points) >= 2
        /\ createStrokePath(state.strokes[i]) # <<>>

\* The pointer went down and up without a move between: strokes holds a
\* stroke of one point, whose path is empty.
C30_Witness ==
    /\ hookLog.call = "endDrawing"
    /\ hookLog.moves = 0
    /\ Len(state.strokes) = 1
    /\ Len(state.strokes[1].points) = 1
    /\ createStrokePath(state.strokes[1]) = <<>>

====
